---- MODULE Spec2Model ----
(***************************************************************************)
(* Model of src/app.py (filegenix): the upload handler that parses a batch *)
(* of tabular files into a per-session storage directory, the stage query  *)
(* (get_diff_data) that recomputes a transformation of the fact table from *)
(* that directory, and the bundle download built on top of it.             *)
(*                                                                         *)
(* Strings.  A file name is a sequence of pieces (short strings); the      *)
(* string operations of the code (lower, replace, endswith, rsplit, "in")  *)
(* are computed piece by piece.  A "." only occurs as the first character  *)
(* of an extension piece.  Paths are compared byte for byte, as on the     *)
(* case-sensitive file system of the deployment platform.                  *)
(*                                                                         *)
(* Tables.  A table is [columns, rows]: the ordered column names and the   *)
(* ordered rows, each row a function from the column names to cells.       *)
(* Cells are strings; NaN is the null cell.                                *)
(***************************************************************************)
EXTENDS Integers, Sequences, FiniteSets, TLC

VARIABLES
    disk,     \* upload id -> (path in the session directory -> content)
    writes,   \* upload id -> (path -> how many times it was written)
    nextId,   \* the next upload id uuid4 hands out
    req,      \* the request handled last
    resp,     \* its response
    attempts  \* the workbook read attempts the upload handler logged for it

vars == <<disk, writes, nextId, req, resp, attempts>>

----------------------------------------------------------------------------
(* Bounds of the model *)

MaxFiles == 3

MaxStoreFiles == 2

MaxSessions == 2

MaxRows == 3

MaxSheets == 2

----------------------------------------------------------------------------
(* Generic helpers on sequences *)

Range(s) == {s[i] : i \in 1..Len(s)}

IsUnique(s) == \A i, j \in 1..Len(s) : s[i] = s[j] => i = j

SeqsUpTo(S, n) == UNION {[1..k -> S] : k \in 0..n}

RECURSIVE FilterSeq(_, _)
FilterSeq(s, keep) ==
    IF s = <<>> THEN <<>>
    ELSE (IF keep[Head(s)] THEN <<Head(s)>> ELSE <<>>) \o FilterSeq(Tail(s), keep)

----------------------------------------------------------------------------
(* Strings as sequences of pieces *)

\* str.lower() on one piece
LowerPiece(p) ==
    CASE p = "FACT_SALES"   -> "fact_sales"
      [] p = "DIM_PRODUCT"  -> "dim_product"
      [] p = "DIM_CATEGORY" -> "dim_category"
      [] p = "DIM_SEGMENT"  -> "dim_segment"
      [] p = "DIM_CALENDAR" -> "dim_calendar"
      [] p = "DATA"         -> "data"
      [] p = ".CSV"         -> ".csv"
      [] p = ".XLSX"        -> ".xlsx"
      [] OTHER              -> p

Lower(name) == [i \in 1..Len(name) |-> LowerPiece(name[i])]

\* the pieces that start with "." and the text after the dot
DotPieces == {".csv", ".CSV", ".xlsx", ".XLSX", ".xls", ".json", ".txt"}

AfterDot(p) ==
    CASE p = ".csv"  -> "csv"
      [] p = ".CSV"  -> "CSV"
      [] p = ".xlsx" -> "xlsx"
      [] p = ".XLSX" -> "XLSX"
      [] p = ".xls"  -> "xls"
      [] p = ".json" -> "json"
      [] p = ".txt"  -> "txt"

LowerExt(e) ==
    CASE e = "CSV" -> "csv" [] e = "XLSX" -> "xlsx" [] OTHER -> e

\* kw in s, for a keyword that is one piece
Contains(name, kw) == \E i \in 1..Len(name) : name[i] = kw

\* s.endswith(suffix), for a suffix that is one extension piece
EndsWith(name, suffix) == Len(name) > 0 /\ name[Len(name)] = suffix

\* s.replace(old, ''), for old one extension piece
RECURSIVE Remove(_, _)
Remove(name, old) ==
    IF name = <<>> THEN <<>>
    ELSE (IF Head(name) = old THEN <<>> ELSE <<Head(name)>>) \o Remove(Tail(name), old)

ALLOWED_EXTENSIONS == {"csv", "xlsx", "xls"}

\* '.' in filename and filename.rsplit('.', 1)[1].lower() in ALLOWED_EXTENSIONS
allowed_file(filename) ==
    /\ \E i \in 1..Len(filename) : filename[i] \in DotPieces
    /\ LET last == CHOOSE i \in 1..Len(filename) :
                      /\ filename[i] \in DotPieces
                      /\ \A j \in (i+1)..Len(filename) : filename[j] \notin DotPieces
       IN  /\ last = Len(filename)
           /\ LowerExt(AfterDot(filename[last])) \in ALLOWED_EXTENSIONS

\* werkzeug's secure_filename: runs of white space become "_", characters
\* outside [A-Za-z0-9_.-] are dropped; letter case is kept
SecurePiece(p) ==
    CASE p = " "   -> <<"_">>
      [] p = "(1)" -> <<"1">>
      [] OTHER     -> <<p>>

RECURSIVE secure_filename(_)
secure_filename(name) ==
    IF name = <<>> THEN <<>> ELSE SecurePiece(Head(name)) \o secure_filename(Tail(name))

----------------------------------------------------------------------------
(* Tables *)

NaN == "NaN"

EmptyTable == [columns |-> <<>>, rows |-> <<>>]

ColSet(t) == Range(t.columns)

\* df.shape
Shape(t) == <<Len(t.rows), Len(t.columns)>>

\* df.isnull().sum().to_dict()
NullCounts(t) ==
    [c \in ColSet(t) |-> Cardinality({i \in 1..Len(t.rows) : t.rows[i][c] = NaN})]

\* df.to_json(orient='records', lines=True): one JSON object per row, its
\* keys in column order; a table without rows serialises to nothing
to_json(t) ==
    [i \in 1..Len(t.rows) |->
        [k \in 1..Len(t.columns) |-> <<t.columns[k], t.rows[i][t.columns[k]]>>]]

\* the keys of the JSON lines in order of first appearance
RECURSIVE KeysOf(_, _)
KeysOf(lines, acc) ==
    IF lines = <<>> THEN acc
    ELSE LET ks  == [k \in 1..Len(Head(lines)) |-> Head(lines)[k][1]]
             new == FilterSeq(ks, [c \in Range(ks) |-> c \notin Range(acc)])
         IN  KeysOf(Tail(lines), acc \o new)

\* pd.read_json(StringIO(text), lines=True)
read_json(lines) ==
    LET cols == KeysOf(lines, <<>>)
        Val(line, c) ==
            IF \E k \in 1..Len(line) : line[k][1] = c
            THEN line[CHOOSE k \in 1..Len(line) : line[k][1] = c][2]
            ELSE NaN
    IN  [columns |-> cols,
         rows    |-> [i \in 1..Len(lines) |-> [c \in Range(cols) |-> Val(lines[i], c)]]]

----------------------------------------------------------------------------
(* The byte stream of one uploaded file, described by what each reader     *)
(* makes of it.  csv: the outcome of pd.read_csv.  zip/sheets: what        *)
(* openpyxl.load_workbook finds.  engine[e]: the outcome of pd.read_excel  *)
(* with engine e on the default sheet.  sheet[s]: the outcome of           *)
(* pd.read_excel with openpyxl on the sheet named s.                       *)

Fail == [ok |-> FALSE, table |-> EmptyTable]

Ok(t) == [ok |-> TRUE, table |-> t]

engines == <<"openpyxl", "xlrd">>

\* validate_xlsx: <<is_valid, sheet names or message>>
validate_xlsx(body) ==
    IF body.zip = "badzip" THEN [valid |-> FALSE, info |-> "Corrupted or invalid Excel file"]
    ELSE IF body.zip = "error" THEN [valid |-> FALSE, info |-> "Validation error"]
    ELSE IF body.sheets = <<>> THEN [valid |-> FALSE, info |-> "No sheets found in the Excel file"]
    ELSE [valid |-> TRUE, info |-> body.sheets]

\* the local variable df of upload_files: not yet assigned, None, or a table
DfUnbound == [state |-> "unbound", table |-> EmptyTable]

DfNone == [state |-> "none", table |-> EmptyTable]

DfTable(t) == [state |-> "table", table |-> t]

Attempt(engine, sheet, ok) == [engine |-> engine, sheet |-> sheet, ok |-> ok]

\* a faulty variant of the loop over the engines, ruled out by C9: without
\* the break a later engine is tried, and its table kept, after an earlier
\* one succeeded
RECURSIVE EngineLoopNoBreak(_, _, _)
EngineLoopNoBreak(body, k, log) ==
    IF k > Len(engines) THEN [df |-> DfNone, log |-> log]
    ELSE LET r == body.engine[engines[k]]
             l == Append(log, Attempt(engines[k], "default", r.ok))
             rest == EngineLoopNoBreak(body, k + 1, l)
         IN  IF r.ok /\ rest.df.state # "table"
             THEN [df |-> DfTable(r.table), log |-> rest.log]
             ELSE rest

\* for engine in engines: try df = pd.read_excel(file_path, engine=engine); break
RECURSIVE EngineLoop(_, _, _)
EngineLoop(body, k, log) ==
    IF k > Len(engines) THEN [df |-> DfNone, log |-> log]
    ELSE LET r == body.engine[engines[k]]
             l == Append(log, Attempt(engines[k], "default", r.ok))
         IN  IF r.ok THEN [df |-> DfTable(r.table), log |-> l]
             ELSE EngineLoop(body, k + 1, l)

\* for sheet_name in sheet_info: try df = pd.read_excel(..., sheet_name=sheet_name); break
RECURSIVE SheetLoop(_, _, _, _)
SheetLoop(body, sheet_info, k, log) ==
    IF k > Len(sheet_info) THEN [df |-> DfNone, log |-> log]
    ELSE LET r == body.sheet[sheet_info[k]]
             l == Append(log, Attempt("openpyxl", sheet_info[k], r.ok))
         IN  IF r.ok THEN [df |-> DfTable(r.table), log |-> l]
             ELSE SheetLoop(body, sheet_info, k + 1, l)

\* the workbook branch after a successful validation (lines 86-104)
ReadExcel(body, sheet_info) ==
    LET e == EngineLoop(body, 1, <<>>)
    IN  IF e.df.state = "table" THEN e ELSE SheetLoop(body, sheet_info, 1, e.log)

----------------------------------------------------------------------------
(* upload_files *)

ErrorInfo(msg) == [error |-> msg]

Url(upload_id, filename) == [upload_id |-> upload_id, filename |-> filename]

\* the entry of a successfully processed file (lines 105-111)
FileInfo(t, upload_id, filename) ==
    [columns  |-> t.columns,
     shape    |-> Shape(t),
     nulls    |-> NullCounts(t),
     file_url |-> Url(upload_id, filename),
     json_url |-> Url(upload_id, filename \o <<".json">>)]

\* results[key] = value on a dict that keeps insertion order
DictSet(d, key, value) ==
    IF \E i \in 1..Len(d) : d[i].name = key
    THEN [i \in 1..Len(d) |-> IF d[i].name = key THEN [name |-> key, info |-> value] ELSE d[i]]
    ELSE Append(d, [name |-> key, info |-> value])

UploadContent(body) == [kind |-> "upload", body |-> body, lines |-> <<>>, files |-> <<>>]

JsonContent(lines) == [kind |-> "json", body |-> Fail, lines |-> lines, files |-> <<>>]

SummaryContent(files) == [kind |-> "summary", body |-> Fail, lines |-> <<>>, files |-> files]

\* writing a file of the session directory: the content is replaced, the
\* write is counted
WriteFile(st, path, content) ==
    [st EXCEPT !.dir    = (path :> content) @@ st.dir,
               !.writes = (path :> (IF path \in DOMAIN st.writes THEN st.writes[path] + 1 ELSE 1))
                          @@ st.writes]

LoopInit ==
    [results |-> <<>>, seen |-> {}, df |-> DfUnbound,
     dir |-> <<>>, writes |-> <<>>, log |-> <<>>]

\* recording a successfully read table: the entry and the JSON serialisation
\* (lines 105-114); df is whatever the local variable holds at that point
Record(st, file, filename, upload_id) ==
    IF st.df.state = "unbound"
    THEN [st EXCEPT !.results = DictSet(@, file.name,
                        ErrorInfo("Failed to process: local variable 'df' referenced before assignment"))]
    ELSE IF st.df.state = "none"
    THEN [st EXCEPT !.results = DictSet(@, file.name,
                        ErrorInfo("Failed to process: 'NoneType' object has no attribute 'columns'"))]
    ELSE WriteFile(
            [st EXCEPT !.results = DictSet(@, file.name, FileInfo(st.df.table, upload_id, filename))],
            filename \o <<".json">>, JsonContent(to_json(st.df.table)))

\* a faulty variant of the duplicate test, ruled out by C10: it never fires
IsDuplicateNever(filename, seen) == FALSE

\* if filename in seen_filenames (line 69)
IsDuplicate(filename, seen) == filename \in seen

\* one iteration of the loop over the submitted files (lines 65-117)
ProcessFile(st0, file, upload_id) ==
    IF ~allowed_file(file.name) THEN st0
    ELSE
    LET filename == secure_filename(file.name)
    IN  IF IsDuplicate(filename, st0.seen)
        THEN [st0 EXCEPT !.results = DictSet(@, file.name, ErrorInfo("Duplicate file name"))]
        ELSE
        LET st1 == WriteFile([st0 EXCEPT !.seen = @ \cup {filename}],
                             filename, UploadContent(file.body))
        IN  IF EndsWith(filename, ".csv")
            THEN IF file.body.csv.ok
                 THEN Record([st1 EXCEPT !.df = DfTable(file.body.csv.table)],
                             file, filename, upload_id)
                 ELSE [st1 EXCEPT !.results = DictSet(@, file.name,
                                  ErrorInfo("Failed to process: read_csv"))]
            ELSE IF EndsWith(filename, ".xlsx") \/ EndsWith(filename, ".xls")
            THEN LET v == validate_xlsx(file.body)
                 IN  IF ~v.valid
                     THEN [st1 EXCEPT !.results = DictSet(@, file.name, ErrorInfo(v.info))]
                     ELSE LET r == ReadExcel(file.body, v.info)
                              st2 == [st1 EXCEPT !.df = r.df, !.log = @ \o r.log]
                          IN  IF r.df.state = "table"
                              THEN Record(st2, file, filename, upload_id)
                              ELSE [st2 EXCEPT !.results = DictSet(@, file.name,
                                       ErrorInfo("Failed to process: All engines and sheets failed to read the Excel file"))]
            ELSE Record(st1, file, filename, upload_id)

RECURSIVE FileLoop(_, _, _, _)
FileLoop(st, files, k, upload_id) ==
    IF k > Len(files) THEN st
    ELSE FileLoop(ProcessFile(st, files[k], upload_id), files, k + 1, upload_id)

summary_json == <<"summary", ".json">>

\* the body of upload_files once the request is accepted (lines 58-121): the
\* final state of the session directory, the per-file results and the log
upload_files(files, upload_id) ==
    LET st == FileLoop(LoopInit, files, 1, upload_id)
    IN  WriteFile(st, summary_json, SummaryContent(st.results))

----------------------------------------------------------------------------
(* pandas operations used by get_diff_data.  An operation that raises is   *)
(* a result with ok = FALSE.                                               *)

Raised == [ok |-> FALSE, table |-> EmptyTable]

Done(t) == [ok |-> TRUE, table |-> t]

\* a faulty variant of dropna, ruled out by C7: the rows are filtered on
\* another column
dropnaOtherColumn(t, col) ==
    IF col \notin ColSet(t) THEN Raised
    ELSE Done([t EXCEPT !.rows = FilterSeq(t.rows, [r \in Range(t.rows) |-> r["CATEGORY"] # NaN])])

\* df.dropna(subset=[col]): KeyError when the column is missing
dropna(t, col) ==
    IF col \notin ColSet(t) THEN Raised
    ELSE Done([t EXCEPT !.rows = FilterSeq(t.rows, [r \in Range(t.rows) |-> r[col] # NaN])])

\* df.drop_duplicates(): the first of equal rows is kept, in order
RECURSIVE DedupRows(_, _)
DedupRows(rows, acc) ==
    IF rows = <<>> THEN acc
    ELSE DedupRows(Tail(rows),
                   IF Head(rows) \in Range(acc) THEN acc ELSE Append(acc, Head(rows)))

drop_duplicates(t) == [t EXCEPT !.rows = DedupRows(t.rows, <<>>)]

\* the column names of a merge: the right key columns are dropped when they
\* are named as the left ones; names on both sides get the suffixes _x, _y
MergeColumns(left, right, left_on, right_on) ==
    LET rkeep == IF left_on = right_on
                 THEN FilterSeq(right.columns, [c \in ColSet(right) |-> c \notin Range(right_on)])
                 ELSE right.columns
        both  == ColSet(left) \cap Range(rkeep)
        keys  == IF left_on = right_on THEN Range(left_on) ELSE {}
        lname == [c \in ColSet(left) |-> IF c \in both \ keys THEN c \o "_x" ELSE c]
        rname == [c \in Range(rkeep) |-> IF c \in both \ keys THEN c \o "_y" ELSE c]
    IN  [rkeep |-> rkeep, lname |-> lname, rname |-> rname,
         columns |-> [k \in 1..Len(left.columns) |-> lname[left.columns[k]]]
                     \o [k \in 1..Len(rkeep) |-> rname[rkeep[k]]]]

\* the rows of a left join: every left row in order, once per matching right
\* row in right order (equal keys match, null keys included), or once with
\* null right cells when nothing matches
RECURSIVE MergeRows(_, _, _, _, _)
MergeRows(lrows, right, left_on, right_on, mc) ==
    IF lrows = <<>> THEN <<>>
    ELSE LET l == Head(lrows)
             match == FilterSeq(right.rows,
                        [r \in Range(right.rows) |->
                            \A k \in 1..Len(left_on) : r[right_on[k]] = l[left_on[k]]])
             Joined(r, has) ==
                [c \in Range(mc.columns) |->
                    IF \E lc \in DOMAIN mc.lname : mc.lname[lc] = c
                    THEN l[CHOOSE lc \in DOMAIN mc.lname : mc.lname[lc] = c]
                    ELSE IF has THEN r[CHOOSE rc \in DOMAIN mc.rname : mc.rname[rc] = c]
                    ELSE NaN]
         IN  (IF match = <<>> THEN <<Joined(l, FALSE)>>
              ELSE [k \in 1..Len(match) |-> Joined(match[k], TRUE)])
             \o MergeRows(Tail(lrows), right, left_on, right_on, mc)

\* pd.merge(left, right, left_on=..., right_on=..., how='left'): KeyError when
\* a key column is missing, MergeError when the suffixes produce a column twice
merge(left, right, left_on, right_on) ==
    IF ~(Range(left_on) \subseteq ColSet(left) /\ Range(right_on) \subseteq ColSet(right))
    THEN Raised
    ELSE LET mc == MergeColumns(left, right, left_on, right_on)
         IN  IF ~IsUnique(mc.columns) THEN Raised
             ELSE Done([columns |-> mc.columns,
                        rows    |-> MergeRows(left.rows, right, left_on, right_on, mc)])

\* the cells pd.to_datetime(errors='coerce') can parse
DateCells == {"w1", "w2"}

to_datetime(v) == IF v \in DateCells THEN v ELSE NaN

\* astype(str).str.upper() on one cell; a null cell becomes the text NAN
UpperCell(v) ==
    CASE v = "a" -> "A" [] v = "b" -> "B" [] v = "w1" -> "W1" [] v = "w2" -> "W2"
      [] v = NaN -> "NAN" [] OTHER -> v

\* df[col] = values: an existing column keeps its place, a new one is appended
SetColumn(t, col, value) ==
    [columns |-> IF col \in ColSet(t) THEN t.columns ELSE Append(t.columns, col),
     rows    |-> [i \in 1..Len(t.rows) |->
                    [c \in ColSet(t) \cup {col} |-> IF c = col THEN value[i] ELSE t.rows[i][c]]]]

\* the 'transform' branch (lines 260-263)
transform(t) ==
    IF "WEEK" \notin ColSet(t) THEN Raised
    ELSE LET t1 == SetColumn(t, "WEEK", [i \in 1..Len(t.rows) |-> to_datetime(t.rows[i]["WEEK"])])
             t2 == IF "ITEM_DESCRIPTION" \in ColSet(t1)
                   THEN SetColumn(t1, "ITEM_DESCRIPTION",
                            [i \in 1..Len(t1.rows) |-> UpperCell(t1.rows[i]["ITEM_DESCRIPTION"])])
                   ELSE t1
         IN  IF "TOTAL_VALUE_SALES" \notin ColSet(t2) THEN Raised
             ELSE Done(SetColumn(t2, "REVENUE",
                          [i \in 1..Len(t2.rows) |-> t2.rows[i]["TOTAL_VALUE_SALES"]]))

\* the 'limpio' branch (line 187)
limpio(t) ==
    LET d == dropna(t, "ITEM_CODE")
    IN  IF d.ok THEN Done(drop_duplicates(d.table)) ELSE Raised

----------------------------------------------------------------------------
(* get_diff_data *)

\* next((f for f in summary['files'].values() if kw in f['file_url']), None):
\* the entries are visited in order; an entry without 'file_url' raises KeyError.
\* The upload id and the '/files/' prefix of the URL contain no keyword.
RECURSIVE FindFile(_, _, _)
FindFile(files, k, kw) ==
    IF k > Len(files) THEN [status |-> "none", idx |-> 0]
    ELSE IF "file_url" \notin DOMAIN files[k].info THEN [status |-> "keyerror", idx |-> k]
    ELSE IF Contains(files[k].info.file_url.filename, kw) THEN [status |-> "found", idx |-> k]
    ELSE FindFile(files, k + 1, kw)

\* os.path.basename(f['file_url']).lower().replace(ext, '') + '.json'
JsonName(info, ext) == Remove(Lower(info.file_url.filename), ext) \o <<".json">>

Roles == <<"product", "category", "segment", "calendar">>

Keyword(role) ==
    CASE role = "fact"     -> "FACT_SALES"
      [] role = "product"  -> "DIM_PRODUCT"
      [] role = "category" -> "DIM_CATEGORY"
      [] role = "segment"  -> "DIM_SEGMENT"
      [] role = "calendar" -> "DIM_CALENDAR"

\* the extension each branch strips from the lower-cased file name
StripExt(role) ==
    CASE role = "fact"     -> ".csv"
      [] role = "product"  -> ".xlsx"
      [] role = "category" -> ".csv"
      [] role = "segment"  -> ".xlsx"
      [] role = "calendar" -> ".xlsx"

LeftOn(role) ==
    CASE role = "product"  -> <<"ITEM_CODE">>
      [] role = "category" -> <<"CATEGORY">>
      [] role = "segment"  -> <<"CATEGORY", "FORMAT">>
      [] role = "calendar" -> <<"WEEK">>

RightOn(role) == IF role = "product" THEN <<"ITEM">> ELSE LeftOn(role)

\* one "Try merge" block (lines 190-205, 208-222, 225-241, 244-258): js is
\* [df, merges, found, loaded]; any exception leaves df as it was
MergeStep(js, files, dir, role) ==
    LET f == FindFile(files, 1, Keyword(role))
    IN  IF f.status # "found" THEN js
        ELSE LET path == JsonName(files[f.idx].info, StripExt(role))
                 js1  == [js EXCEPT !.found = @ \cup {<<role, f.idx>>}]
             IN  IF path \notin DOMAIN dir THEN js1
                 ELSE LET dim == read_json(dir[path].lines)
                          js2 == [js1 EXCEPT !.loaded = @ \cup {<<role, path>>}]
                          m   == merge(js.df, dim, LeftOn(role), RightOn(role))
                      IN  IF role = "segment"
                             /\ ~(Range(LeftOn(role)) \subseteq ColSet(js.df)
                                  /\ Range(LeftOn(role)) \subseteq ColSet(dim))
                          THEN js2
                          ELSE IF m.ok
                          THEN [js2 EXCEPT !.df = m.table, !.merges = Append(@, role)]
                          ELSE js2

RECURSIVE MergeSteps(_, _, _, _)
MergeSteps(js, files, dir, k) ==
    IF k > Len(Roles) THEN js
    ELSE MergeSteps(MergeStep(js, files, dir, Roles[k]), files, dir, k + 1)

NoTrace == [merges |-> <<>>, found |-> {}, loaded |-> {}]

DiffError(msg, tr) ==
    [kind |-> "diff", status |-> 500, error |-> msg, before |-> <<>>, after |-> <<>>,
     rows_before |-> 0, rows_after |-> 0, trace |-> tr]

DiffOk(before, df, tr) ==
    [kind |-> "diff", status |-> 200, error |-> "", before |-> before, after |-> to_json(df),
     rows_before |-> Len(before), rows_after |-> Len(df.rows), trace |-> tr]

\* get_diff_data(upload_id, step) on the session directory dir; the session
\* directory of an unknown upload id is empty
get_diff_data(dir, step) ==
    IF summary_json \notin DOMAIN dir THEN DiffError("Summary not found", NoTrace)
    ELSE
    LET files == dir[summary_json].files
        fact  == FindFile(files, 1, Keyword("fact"))
    IN  IF fact.status = "keyerror" THEN DiffError("'file_url'", NoTrace)
        ELSE IF fact.status = "none" THEN DiffError("FACT_SALES not found", NoTrace)
        ELSE
        LET path == JsonName(files[fact.idx].info, StripExt("fact"))
            tr0  == [NoTrace EXCEPT !.found = {<<"fact", fact.idx>>}]
        IN  IF path \notin DOMAIN dir THEN DiffError("FACT JSON not found", tr0)
            ELSE
            LET before  == dir[path].lines
                fact_df == read_json(before)
                tr1     == [tr0 EXCEPT !.loaded = {<<"fact", path>>}]
            IN  IF step = "limpio"
                THEN LET r == limpio(fact_df)
                     IN  IF r.ok THEN DiffOk(before, r.table, tr1)
                         ELSE DiffError("'ITEM_CODE'", tr1)
                ELSE IF step = "merged"
                THEN LET js == MergeSteps([df |-> fact_df, merges |-> <<>>,
                                           found |-> tr1.found, loaded |-> tr1.loaded],
                                          files, dir, 1)
                     IN  DiffOk(before, js.df,
                                [merges |-> js.merges, found |-> js.found, loaded |-> js.loaded])
                ELSE IF step = "transform"
                THEN LET r == transform(fact_df)
                     IN  IF r.ok THEN DiffOk(before, r.table, tr1)
                         ELSE DiffError("KeyError", tr1)
                ELSE DiffOk(before, fact_df, tr1)

\* download_work (lines 283-326): the stage result is an error tuple, which has
\* no status_code (AttributeError), or the archive is built in memory and
\* handed to send_file, a name the module never imports (NameError); either
\* way the request ends in an unhandled exception and nothing is stored
download_work(dir, step) ==
    LET r == get_diff_data(dir, step)
    IN  [kind |-> "download", status |-> 500,
         error |-> IF r.status # 200 THEN "AttributeError" ELSE "NameError",
         before |-> <<>>, after |-> <<>>, rows_before |-> 0, rows_after |-> 0,
         trace |-> r.trace]

----------------------------------------------------------------------------
(* Inputs *)

CsvBody(t) ==
    [csv |-> Ok(t), zip |-> "badzip", sheets |-> <<>>,
     engine |-> [e \in Range(engines) |-> Fail], sheet |-> <<>>]

\* a workbook whose first sheet every reader reads as t
XlsxBody(t) ==
    [csv |-> Fail, zip |-> "ok", sheets |-> <<"Sheet1">>,
     engine |-> [e \in Range(engines) |-> IF e = "openpyxl" THEN Ok(t) ELSE Fail],
     sheet |-> [n \in {"Sheet1"} |-> Ok(t)]]

\* bytes that are neither text nor an archive
JunkBody ==
    [csv |-> Fail, zip |-> "badzip", sheets |-> <<>>,
     engine |-> [e \in Range(engines) |-> Fail], sheet |-> <<>>]

Row4(a, b, c, d) ==
    [x \in {"ITEM_CODE", "CATEGORY", "WEEK", "TOTAL_VALUE_SALES"} |->
        CASE x = "ITEM_CODE" -> a [] x = "CATEGORY" -> b [] x = "WEEK" -> c [] OTHER -> d]

SalesTable ==
    [columns |-> <<"ITEM_CODE", "CATEGORY", "WEEK", "TOTAL_VALUE_SALES">>,
     rows    |-> <<Row4("a", "c1", "w1", "5"), Row4(NaN, "c1", "zz", "7"),
                   Row4("a", "c1", "w1", "5")>>]

Row2(a, b) == [x \in {"ITEM", "CATEGORY"} |-> IF x = "ITEM" THEN a ELSE b]

DimTable ==
    [columns |-> <<"ITEM", "CATEGORY">>,
     rows    |-> <<Row2("a", "c1"), Row2("b", "c2")>>]

\* the first sheet / the text of a well-formed file holds SalesTable; a
\* damaged file is JunkBody under either reader
FileNames ==
    { <<"FACT_SALES", ".csv">>,
      <<"FACT_SALES", ".xlsx">>,
      <<"fact_sales", ".xlsx">>,
      <<"DIM_PRODUCT", ".xlsx">>,
      <<"DIM_CATEGORY", ".csv">>,
      <<"DIM_CATEGORY", " ", "(1)", ".csv">>,
      <<"DATA", ".CSV">>,
      <<"FACT_SALES", "_", "DIM_CATEGORY", ".xlsx">>,
      <<"fact_sales", "_", "dim_category", ".xlsx">>,
      <<"notes", ".txt">> }

GoodBody(name) ==
    IF LowerPiece(name[Len(name)]) = ".xlsx" THEN XlsxBody(SalesTable) ELSE CsvBody(SalesTable)

Files ==
    {[name |-> n, body |-> GoodBody(n)] : n \in FileNames}
    \cup {[name |-> n, body |-> JunkBody] : n \in FileNames \ {<<"notes", ".txt">>}}

Batches == SeqsUpTo(Files, MaxFiles)

Steps == {"raw", "limpio", "merged", "transform", "other"}

UploadIds == 1..MaxSessions

\* fact tables of up to MaxRows rows, with and without the join key column
KeyCells == {NaN, "a", "b"}

CatCells == {NaN, "c1"}

KeyedRows == {[x \in {"ITEM_CODE", "CATEGORY"} |-> IF x = "ITEM_CODE" THEN k ELSE c] :
                 k \in KeyCells, c \in CatCells}

UnkeyedRows == {[x \in {"CATEGORY"} |-> c] : c \in CatCells}

StageTables ==
    {[columns |-> <<"ITEM_CODE", "CATEGORY">>, rows |-> r] : r \in SeqsUpTo(KeyedRows, MaxRows)}
    \cup {[columns |-> <<"CATEGORY">>, rows |-> r] : r \in SeqsUpTo(UnkeyedRows, MaxRows)}

\* the same export submitted as FACT_SALES.xlsx and as fact_sales.xlsx
StageBatches ==
    {<<[name |-> <<"FACT_SALES", ".xlsx">>, body |-> XlsxBody(t)],
       [name |-> <<"fact_sales", ".xlsx">>, body |-> XlsxBody(t)]>> : t \in StageTables}

\* workbooks: every outcome of the validity check and of each read attempt;
\* a successful attempt yields a table that names the attempt
SheetNames == {"S1", "S2", "S3"}

TableOf(src) == [columns |-> <<"SRC">>, rows |-> <<[x \in {"SRC"} |-> src]>>]

SheetLists == {sh \in SeqsUpTo(SheetNames, MaxSheets) : IsUnique(sh)}

Workbooks ==
    UNION {
      {[csv |-> Fail, zip |-> z, sheets |-> sh,
        engine |-> [e \in Range(engines) |-> IF e \in eok THEN Ok(TableOf(e)) ELSE Fail],
        sheet  |-> [n \in Range(sh) |-> IF n \in sok THEN Ok(TableOf(n)) ELSE Fail]] :
          eok \in SUBSET Range(engines), sok \in SUBSET Range(sh)} :
      z \in {"ok", "badzip", "error"}, sh \in SheetLists}

ParseBatches == {<<[name |-> <<"DATA", ".xlsx">>, body |-> b]>> : b \in Workbooks}

\* a small family of files for the storage discipline
StoreFiles ==
    { [name |-> <<"DIM_CATEGORY", " ", "(1)", ".csv">>, body |-> CsvBody(DimTable)],
      [name |-> <<"DATA", ".xlsx">>, body |-> XlsxBody(DimTable)] }

StoreBatches == SeqsUpTo(StoreFiles, MaxStoreFiles)

----------------------------------------------------------------------------
(* The state machine *)

NoRequest == [kind |-> "none"]

Init ==
    /\ disk = <<>>
    /\ writes = <<>>
    /\ nextId = 1
    /\ req = NoRequest
    /\ resp = NoRequest
    /\ attempts = <<>>

Dir(upload_id) == IF upload_id \in DOMAIN disk THEN disk[upload_id] ELSE <<>>

\* POST /upload with the given files (lines 46-132); uuid4 is a fresh id
DoUpload(files) ==
    /\ req' = [kind |-> "upload", files |-> files]
    /\ IF files = <<>> \/ \A k \in 1..Len(files) : ~allowed_file(files[k].name)
       THEN /\ resp' = [kind |-> "upload", status |-> 400, error |-> "No valid files uploaded"]
            /\ UNCHANGED <<disk, writes, nextId, attempts>>
       ELSE LET st == upload_files(files, nextId)
            IN  /\ disk' = (nextId :> st.dir) @@ disk
                /\ writes' = (nextId :> st.writes) @@ writes
                /\ attempts' = st.log
                /\ resp' = [kind |-> "upload", status |-> 200,
                            upload_id |-> nextId, files |-> st.results]
                /\ nextId' = nextId + 1

\* one session is followed: a batch of up to MaxFiles files
Upload == nextId = 1 /\ \E files \in Batches : DoUpload(files)

\* GET /diff/<upload_id>/data?step=... (lines 276-279)
DiffData ==
    \E upload_id \in UploadIds, step \in Steps :
        /\ req' = [kind |-> "diff", upload_id |-> upload_id, step |-> step]
        /\ resp' = get_diff_data(Dir(upload_id), step)
        /\ UNCHANGED <<disk, writes, nextId, attempts>>

\* GET /preview/download/<upload_id>?step=... (lines 282-326)
Download ==
    \E upload_id \in UploadIds, step \in Steps :
        /\ req' = [kind |-> "download", upload_id |-> upload_id, step |-> step]
        /\ resp' = download_work(Dir(upload_id), step)
        /\ UNCHANGED <<disk, writes, nextId, attempts>>

Next == Upload \/ DiffData \/ Download

Spec == Init /\ [][Next]_vars

\* the stage query on every bounded fact table
StageUpload == nextId = 1 /\ \E files \in StageBatches : DoUpload(files)

NextStage == StageUpload \/ DiffData \/ Download

SpecStage == Init /\ [][NextStage]_vars

\* the upload of one workbook, over every outcome of its read attempts
ParseUpload == nextId = 1 /\ \E files \in ParseBatches : DoUpload(files)

NextParse == ParseUpload \/ DiffData \/ Download

SpecParse == Init /\ [][NextParse]_vars

\* several sessions, interleaved with stage queries and downloads
StoreUpload == nextId <= MaxSessions /\ \E files \in StoreBatches : DoUpload(files)

NextStore == StoreUpload \/ DiffData \/ Download

SpecStore == Init /\ [][NextStore]_vars

----------------------------------------------------------------------------
(* Vocabulary of the properties *)

IsSession(upload_id) == upload_id \in DOMAIN disk

SummaryFiles(upload_id) == disk[upload_id][summary_json].files

\* an entry of a file that was parsed (it carries columns, shape, nulls, URLs)
ParsedOk(entry) == "file_url" \in DOMAIN entry.info

\* the entries of the successfully parsed files whose name contains kw
ParsedWith(upload_id, kw) ==
    {k \in 1..Len(SummaryFiles(upload_id)) :
        /\ ParsedOk(SummaryFiles(upload_id)[k])
        /\ Contains(SummaryFiles(upload_id)[k].name, kw)}

First(S) == CHOOSE k \in S : \A j \in S : k <= j

\* where ingestion stored the parsed rows of an entry, and those rows
IngestedPath(entry) == entry.info.json_url.filename

IngestedLines(upload_id, entry) == disk[upload_id][IngestedPath(entry)].lines

StageQueryOn(step) ==
    /\ req.kind = "diff"
    /\ req.step = step
    /\ IsSession(req.upload_id)

UploadDone == req.kind = "upload" /\ resp.status = 200

\* the entry recorded under a file name, if any
Absent == [absent |-> TRUE]

EntryOf(results, name) ==
    IF \E k \in 1..Len(results) : results[k].name = name
    THEN results[CHOOSE k \in 1..Len(results) : results[k].name = name].info
    ELSE Absent

----------------------------------------------------------------------------
(* The claims *)

\* C1: after an upload in which a file whose name contains FACT_SALES was
\* parsed successfully, the stage query with stage raw succeeds and returns
\* exactly the rows ingestion persisted for that file, read from the location
\* ingestion wrote.
C1_RawReturnsIngestedRows ==
    (StageQueryOn("raw") /\ ParsedWith(req.upload_id, "FACT_SALES") # {}) =>
        LET fact == SummaryFiles(req.upload_id)[First(ParsedWith(req.upload_id, "FACT_SALES"))]
        IN  /\ resp.status = 200
            /\ <<"fact", IngestedPath(fact)>> \in resp.trace.loaded
            /\ resp.after = IngestedLines(req.upload_id, fact)

\* the session directory as it would be had the failed files not been part
\* of the batch: the summary holds the entries of the parsed files only
WithoutFailed(dir) ==
    [dir EXCEPT ![summary_json].files = SelectSeq(@, ParsedOk)]

\* C2: a failed file does not prevent stage results: when the fact file was
\* parsed successfully, another file of the batch was recorded with an error,
\* and the stage query returns a table result on the session without the
\* failed entries, it returns a table result on the session itself.
C2_FailedFileDoesNotBlockStage ==
    (/\ req.kind = "diff"
     /\ IsSession(req.upload_id)
     /\ ParsedWith(req.upload_id, "FACT_SALES") # {}
     /\ \E k \in 1..Len(SummaryFiles(req.upload_id)) : ~ParsedOk(SummaryFiles(req.upload_id)[k])
     /\ get_diff_data(WithoutFailed(disk[req.upload_id]), req.step).status = 200)
    => resp.status = 200

\* C3: when two files of a batch have the same name and the first was parsed
\* successfully, the per-file results hold the first file's parse result and
\* a duplicate-file error for the second.
C3_DuplicateKeepsFirstResult ==
    UploadDone =>
        \A i, j \in 1..Len(req.files) :
            (/\ i < j
             /\ req.files[i].name = req.files[j].name
             /\ allowed_file(req.files[i].name)
             /\ (secure_filename(req.files[i].name) \o <<".json">>) \in DOMAIN disk[resp.upload_id])
            => /\ \E k \in 1..Len(resp.files) :
                     resp.files[k].name = req.files[i].name /\ ParsedOk(resp.files[k])
               /\ \E k \in 1..Len(resp.files) :
                     /\ resp.files[k].name = req.files[j].name
                     /\ ~ParsedOk(resp.files[k])
                     /\ resp.files[k].info.error = "Duplicate file name"

\* C4: in a batch of files with pairwise distinct names, the outcome recorded
\* for each file is the outcome the file gets when it is uploaded alone.
C4_PerFileIndependence ==
    (UploadDone /\ IsUnique([k \in 1..Len(req.files) |-> req.files[k].name])) =>
        \A i \in 1..Len(req.files) :
            EntryOf(resp.files, req.files[i].name)
                = EntryOf(upload_files(<<req.files[i]>>, resp.upload_id).results,
                          req.files[i].name)

\* the table the stage query started from, and the stages as the
\* specification composes them
StartTable == read_json(resp.before)

JoinedFrom(t) ==
    MergeSteps([df |-> t, merges |-> <<>>, found |-> {}, loaded |-> {}],
               SummaryFiles(req.upload_id), disk[req.upload_id], 1).df

\* C5: every stage recomputes the prior stages: the joined result is the
\* joins applied to the cleaned table, the derived result is the derived
\* columns added to the joined table.
C5_StagesCompose ==
    /\ (StageQueryOn("merged") /\ resp.status = 200 /\ limpio(StartTable).ok) =>
           resp.after = to_json(JoinedFrom(limpio(StartTable).table))
    /\ (StageQueryOn("transform") /\ resp.status = 200 /\ limpio(StartTable).ok) =>
           LET d == transform(JoinedFrom(limpio(StartTable).table))
           IN  d.ok /\ resp.after = to_json(d.table)

\* the joins the specification expects: in the order of Roles, the join of a
\* role is performed exactly when a file of that role was parsed successfully
\* and the key columns are present on both sides
RECURSIVE ExpectedJoins(_, _, _)
ExpectedJoins(upload_id, df, k) ==
    IF k > Len(Roles) THEN <<>>
    ELSE LET role  == Roles[k]
             cands == ParsedWith(upload_id, Keyword(role))
         IN  IF cands = {} THEN ExpectedJoins(upload_id, df, k + 1)
             ELSE LET dim == read_json(IngestedLines(upload_id,
                                          SummaryFiles(upload_id)[First(cands)]))
                      m   == merge(df, dim, LeftOn(role), RightOn(role))
                  IN  IF Range(LeftOn(role)) \subseteq ColSet(df)
                         /\ Range(RightOn(role)) \subseteq ColSet(dim)
                      THEN <<role>> \o ExpectedJoins(upload_id,
                                          IF m.ok THEN m.table ELSE df, k + 1)
                      ELSE ExpectedJoins(upload_id, df, k + 1)

\* C6: a joined-stage query that returns a result has performed exactly the
\* joins whose dimension table was parsed successfully in the session and
\* whose key columns are present, in the fixed order.
C6_JoinsExactlyWhenAvailable ==
    (StageQueryOn("merged") /\ resp.status = 200) =>
        resp.trace.merges = ExpectedJoins(req.upload_id, StartTable, 1)

\* C8: role classification is exclusive: no file of the session is resolved
\* for more than one role by a stage query.
C8_RolesExclusive ==
    req.kind = "diff" =>
        \A p, q \in resp.trace.found : p[2] = q[2] => p[1] = q[1]

\* the value of the join key in one serialised row
KeyOfLine(line) == line[CHOOSE k \in 1..Len(line) : line[k][1] = "ITEM_CODE"][2]

Plan(sheets) ==
    [k \in 1..Len(engines) |-> [engine |-> engines[k], sheet |-> "default"]]
    \o [k \in 1..Len(sheets) |-> [engine |-> "openpyxl", sheet |-> sheets[k]]]

\* what the byte stream yields under one attempt of the plan
OutcomeOf(body, a) == IF a.sheet = "default" THEN body.engine[a.engine] ELSE body.sheet[a.sheet]

Workbook == <<"DATA", ".xlsx">>

\* C9: for a workbook that passes the validity check the read attempts are a
\* prefix of the fixed plan, every attempt before the last failed, a
\* successful last attempt alone supplies the recorded and persisted table,
\* and when all attempts of the plan failed the file is recorded with an
\* error; there are at most 2 + (number of sheets) attempts.
C9_ReadAttemptsOrdered ==
    \A id \in DOMAIN disk :
        LET body  == disk[id][Workbook].body
            entry == SummaryFiles(id)[1]
            plan  == Plan(body.sheets)
            n     == Len(attempts)
        IN  (body.zip = "ok" /\ body.sheets # <<>>) =>
                /\ 1 <= n
                /\ n <= 2 + Len(body.sheets)
                /\ \A k \in 1..n :
                      /\ attempts[k].engine = plan[k].engine
                      /\ attempts[k].sheet = plan[k].sheet
                      /\ attempts[k].ok = OutcomeOf(body, plan[k]).ok
                /\ \A k \in 1..(n-1) : ~attempts[k].ok
                /\ attempts[n].ok =>
                      /\ ParsedOk(entry)
                      /\ entry.info.columns = OutcomeOf(body, plan[n]).table.columns
                      /\ IngestedLines(id, entry) = to_json(OutcomeOf(body, plan[n]).table)
                /\ ~attempts[n].ok => (n = Len(plan) /\ ~ParsedOk(entry))

\* both engines and the first sheet failed, the second sheet was read
C9_Witness ==
    /\ IsSession(1)
    /\ Len(attempts) = 4
    /\ attempts[4].ok
    /\ ParsedOk(SummaryFiles(1)[1])

\* C10: session storage is write-once: a request never changes or extends
\* the directory of an existing session, every file of a session directory
\* was written exactly once by the upload that created it, and stage queries
\* and downloads write nothing.
C10_WriteOnce ==
    [][ /\ \A id \in DOMAIN disk :
              /\ id \in DOMAIN disk'
              /\ disk'[id] = disk[id]
              /\ writes'[id] = writes[id]
        /\ \A id \in DOMAIN disk' :
              /\ DOMAIN writes'[id] = DOMAIN disk'[id]
              /\ \A path \in DOMAIN writes'[id] : writes'[id][path] = 1
        /\ req'.kind # "upload" => (disk' = disk /\ writes' = writes) ]_vars

\* two sessions, one of a batch with a repeated file name and one holding
\* two uploads with their parsed tables and the summary, read by a download
C10_Witness ==
    /\ req.kind = "download"
    /\ \E a, b \in DOMAIN disk :
          /\ a # b
          /\ Cardinality(DOMAIN disk[a]) = 5
          /\ \E k \in 1..Len(SummaryFiles(b)) :
                /\ ~ParsedOk(SummaryFiles(b)[k])
                /\ SummaryFiles(b)[k].info.error = "Duplicate file name"

====
